---------------------------- MODULE Spec2Model ----------------------------
(***************************************************************************)
(* DigiPlayer client: the agent controller (main.py), the registration     *)
(* service (registration.py), the heartbeat service (heartbeat.py), the    *)
(* command executor (commands.py) and the status surface's /api/status     *)
(* refresh (web/server.py), as one state machine; and the device id        *)
(* computation (utils.py), called directly.                                *)
(*                                                                         *)
(* Threads: the controller (main thread, which also runs the signal        *)
(* handler), the registration polling thread, the heartbeat thread and one *)
(* status-surface request at a time.  A thread takes one step per          *)
(* statement group that reads or writes shared state or waits for the      *)
(* network; the steps of different threads interleave freely.              *)
(*                                                                         *)
(* Environment (drawn with \E in the actions): the answers of the          *)
(* server, the outcome of writing the config file, the outcome of the OS   *)
(* utilities, the arrival of a termination signal.                         *)
(*                                                                         *)
(* Values: a player_id of 0 stands for "not set" (None); Python tests the  *)
(* field by truth value everywhere, so None and 0 are the same case.  A    *)
(* command id of NoCmdId stands for a command without an "id" key.         *)
(***************************************************************************)
EXTENDS Integers, Sequences, FiniteSets, TLC

\* ------------------------------------------------------------- bounds
MaxPlayerId == 2
MaxUpdates == 2
MaxBeats == 2
MaxCmds == 2
MaxCmdId == 1
MaxSignals == 1
MaxCalls == 2
MaxFail == 1
MaxIds == 2
MaxProcs == 2
MaxNodes == 2

\* ------------------------------------------------------------- values
NoPlayer == 0
\* Config.heartbeat_interval, seconds; NoSleep: the loop has not slept yet.
HeartbeatInterval == 30
ServerUrl == "https://www.digireklaam.ee"
DeviceId == "DIG0123456789AB"

\* Config: the fields the services read; player_id is the only one filled in
\* after construction.
Config(p) ==
  [player_id |-> p, device_id |-> DeviceId, server_url |-> ServerUrl,
   heartbeat_interval |-> HeartbeatInterval]
NoSleep == 0
NoCmdId == -1

PlayerIds == 1..MaxPlayerId
CmdIds == {NoCmdId} \cup (0..MaxCmdId)

KnownTypes == {"reboot", "refresh", "screen_on", "screen_off", "screenshot", "update_playlist"}
UnknownTypes == {"bogus"}
CmdTypes == KnownTypes \cup UnknownTypes
Commands == [id : CmdIds, type : CmdTypes]

UtilOutcomes == {"ok", "nonzero", "missing", "other"}
HttpKinds == {"200", "404", "other", "timeout", "connerr"}
LookupKinds == {"200", "other", "timeout", "connerr"}
ProbeKinds == {"200", "404", "other", "exc"}
HealthKinds == {"200", "non200", "exc"}
AckKinds == {"200", "non200", "exc"}
Threads == {"poll", "web"}

\* Python truth value of config.player_id / of a looked-up player_id.
Truthy(x) == x # NoPlayer
\* Python truth value of command.get("id"): None and 0 are both false.
CmdIdTruthy(x) == x # NoCmdId /\ x # 0

VARIABLES
  config,               \* Config: [player_id]
  disk,                 \* player_id held by the config file
  last_status,          \* RegistrationService.last_status
  running,              \* DigiPlayer.running
  reg_running,          \* RegistrationService.running
  hb_running,           \* HeartbeatService.running
  consecutive_failures, \* HeartbeatService.consecutive_failures
  last_error,           \* HeartbeatService.last_error
  command_handler,      \* HeartbeatService.command_handler is set
  webUp,                \* the status surface is serving
  ctlPc,                \* controller position
  regPc,                \* polling thread position
  upPc, upResult,       \* update_status(): position and lookup result, per calling thread
  hbThread,             \* DigiPlayer._heartbeat_thread: "none", "alive", "dead"
  hbPc, hbCaller,       \* heartbeat thread position; who called send_heartbeat()
  hbResp, cmdIdx,       \* the heartbeat response being processed; index of the current command
  exCmd, exCaller,      \* execute(): its command; who called it
  exSuccess, exError,   \* execute(): success, error_message
  utilRuns,             \* execute() called directly: what each OS utility run by the handler did, in order
  exRet, hbRet,         \* last value returned by execute() / send_heartbeat()
  \* ---- history (written, never read by the program's actions)
  stopRequested,        \* stop() has been called
  sigCount,             \* termination signals delivered
  initPlayer,           \* config.player_id when run() began
  polls, webCount, beats, calls,
  pollChecks,           \* network checks of the polling loop's current iteration before its lookup, each with its answer
  pollRegSeen,          \* player_id of each registered = true lookup result the polling loop received
  callbacks, cbStatus, cbConfig, cbDisk,  \* on_registered: count; player_id of its status, of config, of the file
  pollStores,           \* player_id values the polling loop wrote to config
  saveFailed,           \* a config write of the polling loop failed
  hbStartedBy,          \* who started the heartbeat thread
  hbLive,               \* heartbeat threads started whose run() has not returned
  lastSleep,            \* seconds the heartbeat loop slept in its latest time.sleep(), NoSleep before the first
  hbPlayer,             \* player_id in the URL of the heartbeat POST of the send_heartbeat() call in progress
  executing,            \* calls of execute() that have begun and not returned
  cmdsSent,             \* commands the server has listed in its answers so far
  execLog,              \* list positions dispatched by the current send_heartbeat() call, in order
  exDone,               \* execute() calls that have returned within the current send_heartbeat() call
  ackLog,               \* acknowledgements posted by the latest execute() call
  httpPosts,            \* heartbeat POSTs issued by the current send_heartbeat() call
  \* ---- the machine, as generate_device_id() finds it (utils.py)
  cpuinfo,              \* /proc/cpuinfo: missing, unreadable, or its lines
  ifaces,               \* /sys/class/net/<name>/address of eth0, wlan0, en0, enp0s3, in this order
  hwNode,               \* the hardware address uuid.getnode() can find, NoNode if none
  nodeCache,            \* uuid._node of the running process, NoNode before the first getnode()
  devProc,              \* number of the running process
  devIds                \* history: what each call of generate_device_id() gave

progVars == <<config, disk, last_status, running, reg_running, hb_running,
              consecutive_failures, last_error, command_handler, webUp>>
ctlVars == <<ctlPc>>
regVars == <<regPc, upPc, upResult>>
hbVars == <<hbThread, hbPc, hbCaller, hbResp, cmdIdx, exCmd, exCaller,
            exSuccess, exError, utilRuns, exRet, hbRet>>
devVars == <<cpuinfo, ifaces, hwNode, nodeCache, devProc, devIds>>
ctlHist == <<stopRequested, sigCount, initPlayer, devVars>>
regHist == <<polls, pollChecks, webCount, pollRegSeen, callbacks, cbStatus, cbConfig, cbDisk,
             pollStores, saveFailed>>
callHist == <<execLog, exDone, ackLog, httpPosts>>
histVars == <<ctlHist, regHist, callHist, beats, calls, hbStartedBy, hbLive, cmdsSent, lastSleep, hbPlayer, executing>>
vars == <<progVars, ctlVars, regVars, hbVars, histVars>>

\* ------------------------------------------------------------- device identity (utils.py)
\* Texts are sequences of one-character strings.
HexDigits == <<"0", "1", "2", "3", "4", "5", "6", "7", "8", "9",
               "a", "b", "c", "d", "e", "f">>
Whitespace == {" ", "\t", "\n"}
UpperAlnum ==
  {"0", "1", "2", "3", "4", "5", "6", "7", "8", "9",
   "A", "B", "C", "D", "E", "F", "G", "H", "I", "J", "K", "L", "M",
   "N", "O", "P", "Q", "R", "S", "T", "U", "V", "W", "X", "Y", "Z"}

Least(S) == CHOOSE x \in S : \A y \in S : x <= y
Greatest(S) == CHOOSE x \in S : \A y \in S : y <= x

\* Position of the first c in text s, 0 when there is none.
IndexOf(s, c) ==
  LET at == {i \in 1..Len(s) : s[i] = c} IN IF at = {} THEN 0 ELSE Least(at)

\* str.strip(): leading and trailing whitespace removed.
Strip(s) ==
  LET keep == {i \in 1..Len(s) : s[i] \notin Whitespace} IN
    IF keep = {} THEN <<>> ELSE SubSeq(s, Least(keep), Greatest(keep))

\* line.split(":")[1]: the text between the first colon and the next one.
SecondPiece(line) ==
  LET rest == SubSeq(line, IndexOf(line, ":") + 1, Len(line))
      next == IndexOf(rest, ":")
  IN IF next = 0 THEN rest ELSE SubSeq(rest, 1, next - 1)

\* str.replace(":", "")
RemoveColons(s) == SelectSeq(s, LAMBDA c : c # ":")

\* str.upper() on hexadecimal text.
UpperOf(c) ==
  CASE c = "a" -> "A" [] c = "b" -> "B" [] c = "c" -> "C"
    [] c = "d" -> "D" [] c = "e" -> "E" [] c = "f" -> "F"
    [] OTHER -> c
Upper(s) == [i \in 1..Len(s) |-> UpperOf(s[i])]

\* format(mac, "012x"): lowercase hexadecimal, zero-padded to 12 characters.
RECURSIVE HexOf(_)
HexOf(n) ==
  IF n < 16 THEN <<HexDigits[n + 1]>>
            ELSE Append(HexOf(n \div 16), HexDigits[(n % 16) + 1])
Hex12(n) ==
  LET h == HexOf(n) IN
    IF Len(h) >= 12 THEN h ELSE [i \in 1..(12 - Len(h)) |-> "0"] \o h

\* hashlib.md5(text).hexdigest(): 32 lowercase hexadecimal digits that depend
\* on the text and on nothing else.  MD5 itself is replaced by a small mixing
\* function with these two properties.
CharCode(c) ==
  LET at == {k \in 1..16 : HexDigits[k] = c} IN IF at = {} THEN 17 ELSE Least(at)
RECURSIVE Mix(_, _, _)
Mix(text, j, i) ==
  IF j > Len(text) THEN Len(text)
                   ELSE (CharCode(text[j]) * (i + j) + 3 * Mix(text, j + 1, i)) % 251
Digest(text) == [i \in 1..32 |-> HexDigits[(Mix(text, 1, i) % 16) + 1]]

\* What a function call ends with: a value, or an exception that leaves it.
Gives(v) == [raised |-> FALSE, value |-> v]
Fails == [raised |-> TRUE, value |-> <<>>]

\* get_cpu_serial(), lines 16-25.
FallbackSerial == [i \in 1..16 |-> "0"]
StartsWithSerial(line) ==
  Len(line) >= 6 /\ SubSeq(line, 1, 6) = <<"S", "e", "r", "i", "a", "l">>
get_cpu_serial(ci) ==
  CASE ci.state = "missing" -> Gives(FallbackSerial)    \* FileNotFoundError, caught
    [] ci.state = "unreadable" -> Fails                 \* any other OSError of open()
    [] OTHER ->
         LET at == {i \in 1..Len(ci.lines) : StartsWithSerial(ci.lines[i])} IN
           IF at = {} THEN Gives(FallbackSerial)
           ELSE LET line == ci.lines[Least(at)] IN
                  IF IndexOf(line, ":") = 0 THEN Fails  \* IndexError
                  ELSE Gives(Strip(SecondPiece(line)))

\* get_mac_address(), lines 31-38: the first interface file that can be read,
\* 0 when there is none.
RECURSIVE FirstReadable(_, _)
FirstReadable(ifs, i) ==
  IF i > Len(ifs) THEN 0
  ELSE IF ifs[i].state = "readable" THEN i ELSE FirstReadable(ifs, i + 1)

\* get_mac_address(), lines 28-43; node is what uuid.getnode() returns.
get_mac_address(ifs, node) ==
  LET i == FirstReadable(ifs, 1) IN
    IF i # 0 THEN RemoveColons(Strip(ifs[i].content)) ELSE Hex12(node)

\* generate_device_id(), lines 109-111.
generate_device_id(cpu_serial, mac) ==
  <<"D", "I", "G">> \o Upper(SubSeq(Digest(cpu_serial \o <<"-">> \o mac), 1, 12))

\* The machines considered.
Serials ==
  {<<"1", "0", "0", "0", "0", "0", "0", "0", "a", "b", "c", "d", "e", "f", "0", "1">>,
   <<"0", "0", "0", "0", "0", "0", "0", "0", "1", "2", "3", "4", "5", "6", "7", "8">>}
SerialLine(serial) ==
  <<"S", "e", "r", "i", "a", "l", "\t", "\t", ":", " ">> \o serial \o <<"\n">>
ModelLine == <<"M", "o", "d", "e", "l", "\t", ":", " ", "P", "i", "\n">>
CpuInfos ==
  {[state |-> "missing", lines |-> <<>>],
   [state |-> "unreadable", lines |-> <<>>],
   [state |-> "readable", lines |-> <<ModelLine>>]}
    \cup {[state |-> "readable", lines |-> <<ModelLine, SerialLine(serial)>>] :
            serial \in Serials}

Absent == [state |-> "absent", content |-> <<>>]
Unreadable == [state |-> "unreadable", content |-> <<>>]
Readable(content) == [state |-> "readable", content |-> content]
AddressA ==
  <<"b", "8", ":", "2", "7", ":", "e", "b", ":", "0", "0", ":", "0", "0", ":", "0", "1", "\n">>
AddressB ==
  <<"d", "c", ":", "a", "6", ":", "3", "2", ":", "1", "2", ":", "3", "4", ":", "5", "6", "\n">>
IfaceSets ==
  {<<Absent, Absent, Absent, Absent>>,
   <<Readable(AddressA), Readable(AddressB), Absent, Absent>>,
   <<Absent, Readable(AddressB), Absent, Absent>>,
   <<Unreadable, Readable(AddressB), Absent, Absent>>}

\* uuid.getnode(): the hardware address when one can be found, else a random
\* number drawn once per process.
NoNode == 0
HwNodes == {4660}
RandomBase == 65536
RandomNodes == {RandomBase + k : k \in 1..MaxNodes}
getnode ==
  IF nodeCache # NoNode THEN {nodeCache}
  ELSE IF hwNode # NoNode THEN {hwNode} ELSE RandomNodes

\* The agent's specifications never call generate_device_id(): the config
\* holds a device_id.
DevIdle ==
  /\ cpuinfo = [state |-> "missing", lines |-> <<>>]
  /\ ifaces = <<Absent, Absent, Absent, Absent>>
  /\ hwNode = NoNode /\ nodeCache = NoNode
  /\ devProc = 1
  /\ devIds = <<>>

\* ------------------------------------------------------------- initial state
NoResult == [registered |-> FALSE, player_id |-> NoPlayer, error |-> "none"]
NoResp == [kind |-> "none", field |-> "absent", count |-> 0]
NoCmd == [id |-> NoCmdId, type |-> "none"]
NoRet == [status |-> "none", message |-> "none"]

InitStatus ==
  [internet |-> FALSE, server |-> FALSE, registered |-> FALSE,
   error |-> "none", player_id |-> NoPlayer]

\* What holds in every initial state, whoever drives the services.
InitCommon ==
  /\ last_status = InitStatus
  /\ running = FALSE /\ reg_running = FALSE /\ hb_running = FALSE
  /\ webUp = FALSE
  /\ regPc = "idle"
  /\ upPc = [t \in Threads |-> "idle"]
  /\ upResult = [t \in Threads |-> NoResult]
  /\ hbThread = "none"
  /\ hbCaller = "none" /\ hbResp = NoResp /\ cmdIdx = 0
  /\ exCmd = NoCmd /\ exCaller = "none"
  /\ exSuccess = FALSE /\ exError = [kind |-> "none", arg |-> "none"]
  /\ utilRuns = <<>>
  /\ exRet = "none" /\ hbRet = NoRet
  /\ stopRequested = FALSE /\ sigCount = 0
  /\ polls = 0 /\ pollChecks = <<>> /\ webCount = 0 /\ beats = 0 /\ calls = 0
  /\ pollRegSeen = <<>>
  /\ callbacks = 0 /\ cbStatus = NoPlayer /\ cbConfig = NoPlayer /\ cbDisk = NoPlayer
  /\ pollStores = <<>> /\ saveFailed = FALSE
  /\ hbStartedBy = "none" /\ hbLive = 0 /\ cmdsSent = 0 /\ executing = 0 /\ lastSleep = NoSleep
  /\ hbPlayer = NoPlayer
  /\ execLog = <<>> /\ exDone = 0 /\ ackLog = <<>> /\ httpPosts = 0

\* The agent after main() has loaded the config and built DigiPlayer.
Init ==
  /\ InitCommon
  /\ \E p \in {NoPlayer} \cup PlayerIds :
       /\ config = Config(p)
       /\ disk = p
       /\ initPlayer = p
  /\ DevIdle
  /\ consecutive_failures = 0 /\ last_error = "none"
  /\ command_handler = TRUE
  /\ ctlPc = "boot"
  /\ hbPc = "off"

Alive == ctlPc # "exited"

\* ------------------------------------------------------------- controller
\* Deviation: start_heartbeat() without the is_alive() test.
StartsUnguarded == Truthy(config.player_id)

\* start_heartbeat(): the thread is started unless no player_id is set or one is alive.
StartsHeartbeat == Truthy(config.player_id) /\ hbThread # "alive"

start_heartbeat(who) ==
  IF StartsHeartbeat
    THEN /\ hbThread' = "alive"
         /\ hbPc' = "entry"
         /\ hbStartedBy' = who
         /\ hbLive' = hbLive + 1
    ELSE UNCHANGED <<hbThread, hbPc, hbStartedBy, hbLive>>

CtlRun ==
  /\ ctlPc = "boot"
  /\ running' = TRUE
  /\ ctlPc' = "web"
  /\ UNCHANGED <<config, disk, last_status, reg_running, hb_running,
                 consecutive_failures, last_error, command_handler, webUp,
                 regVars, hbVars, histVars>>

CtlStartWeb ==
  /\ ctlPc = "web"
  /\ \E ok \in BOOLEAN : webUp' = ok
  /\ ctlPc' = "decide"
  /\ UNCHANGED <<config, disk, last_status, running, reg_running, hb_running,
                 consecutive_failures, last_error, command_handler,
                 regVars, hbVars, histVars>>

\* Deviation: the startup decision never finds a player_id.
NeverRegistered == FALSE

\* run(), line 141: if self.config.player_id
AlreadyRegistered == Truthy(config.player_id)

CtlDecide ==
  /\ ctlPc = "decide"
  /\ IF AlreadyRegistered
       THEN /\ start_heartbeat("startup")
            /\ ctlPc' = "main_loop"
       ELSE /\ ctlPc' = "start_reg"
            /\ UNCHANGED <<hbThread, hbPc, hbStartedBy, hbLive>>
  /\ UNCHANGED <<progVars, regVars, hbCaller, hbResp, cmdIdx, exCmd, exCaller,
                 exSuccess, exError, utilRuns, exRet, hbRet, executing,
                 stopRequested, sigCount, initPlayer, devVars, polls, pollChecks, webCount, beats, calls,
                 pollRegSeen, callbacks, cbStatus, cbConfig, cbDisk, pollStores, saveFailed,
                 callHist, cmdsSent, lastSleep, hbPlayer>>

start_registration_polling ==
  /\ ctlPc = "start_reg"
  /\ regPc' = IF Truthy(config.player_id) THEN regPc ELSE "entry"
  /\ ctlPc' = "main_loop"
  /\ UNCHANGED <<progVars, upPc, upResult, hbVars, histVars>>

\* stop(): the three flags are cleared.  No thread reads more than one of them,
\* so the three writes are one step.
stop ==
  /\ running' = FALSE
  /\ hb_running' = FALSE
  /\ reg_running' = FALSE
  /\ stopRequested' = TRUE

\* SIGTERM / SIGINT: _handle_signal runs stop() on the main thread.
handle_signal ==
  /\ ctlPc = "main_loop"
  /\ sigCount < MaxSignals
  /\ sigCount' = sigCount + 1
  /\ stop
  /\ UNCHANGED <<config, disk, last_status, consecutive_failures, last_error,
                 command_handler, webUp, ctlVars, regVars, hbVars, initPlayer, devVars,
                 regHist, callHist, beats, calls, hbStartedBy, hbLive, executing, cmdsSent, lastSleep, hbPlayer>>

\* while self.running: ... ends; run() calls stop() and returns, main() returns
\* and the process ends: the daemon threads end with it.
CtlLoopExit ==
  /\ ctlPc = "main_loop"
  /\ ~running
  /\ stop
  /\ ctlPc' = "exited"
  /\ UNCHANGED <<config, disk, last_status, consecutive_failures, last_error,
                 command_handler, webUp, regVars, hbVars, sigCount, initPlayer, devVars,
                 regHist, callHist, beats, calls, hbStartedBy, hbLive, executing, cmdsSent, lastSleep, hbPlayer>>

Controller ==
  \/ CtlRun
  \/ CtlStartWeb
  \/ CtlDecide
  \/ start_registration_polling
  \/ handle_signal
  \/ CtlLoopExit

\* ------------------------------------------------------------- registration service
LookupBodies ==
  {[registered |-> FALSE, player_id |-> NoPlayer]}
    \cup {[registered |-> TRUE, player_id |-> p] : p \in {NoPlayer} \cup PlayerIds}
NoBody == [registered |-> FALSE, player_id |-> NoPlayer]
\* What the lookup GET can end with.  object: the value check_registration()
\* returns is a dict; a 200 answer whose JSON body is null, a list, a number or
\* a string is returned as it is (lines 85-87).
LookupAnswers ==
  {[kind |-> "200", object |-> TRUE, body |-> b] : b \in LookupBodies}
    \cup {[kind |-> "200", object |-> FALSE, body |-> NoBody]}
    \cup {[kind |-> k, object |-> TRUE, body |-> NoBody] : k \in LookupKinds \ {"200"}}

\* Line 112: result.get exists when the result is a dict.
HasGet(a) == a.object

\* check_registration(): the body of a 200 answer, else registered = False with an error.
check_registration(a) ==
  IF a.kind = "200"
    THEN [registered |-> a.body.registered, player_id |-> a.body.player_id, error |-> "none"]
    ELSE [registered |-> FALSE, player_id |-> NoPlayer,
          error |-> CASE a.kind = "timeout" -> "Timeout"
                      [] a.kind = "connerr" -> "Connection error"
                      [] OTHER -> "HTTP 500"]

\* check_server(): the health endpoint; the lookup probe only when the health
\* request raised.
check_server(health, probe) ==
  CASE health = "200" -> TRUE
    [] health = "non200" -> FALSE
    [] OTHER -> probe \in {"200", "404"}

\* Lines 42-50: the internet check made, with what it returned.
InternetCheck(inet) ==
  <<[check |-> "internet", answer |-> IF inet THEN "True" ELSE "False"]>>

\* check_server(): the requests it makes, each with its answer: the health
\* endpoint, and the lookup probe when the health request raised.
ServerRequests(health, probe) ==
  IF health = "exc"
    THEN <<[check |-> "health", answer |-> health], [check |-> "probe", answer |-> probe]>>
    ELSE <<[check |-> "health", answer |-> health]>>

\* update_status(), as called by thread t, one step per network call or shared access.
UpdInternet(t) ==
  /\ Alive
  /\ upPc[t] = "internet"
  /\ \E inet \in BOOLEAN :
       /\ last_status' = [last_status EXCEPT !.internet = inet]
       /\ pollChecks' = IF t = "poll" THEN InternetCheck(inet) ELSE pollChecks
  /\ upPc' = [upPc EXCEPT ![t] = "server"]
  /\ UNCHANGED <<config, disk, running, reg_running, hb_running,
                 consecutive_failures, last_error, command_handler, webUp,
                 ctlVars, regPc, upResult, hbVars, ctlHist, polls, webCount, pollRegSeen, callbacks, cbStatus,
                 cbConfig, cbDisk, pollStores, saveFailed, callHist, beats, calls,
                 hbStartedBy, hbLive, cmdsSent, lastSleep, hbPlayer, executing>>

UpdServer(t) ==
  /\ Alive
  /\ upPc[t] = "server"
  /\ IF last_status.internet
       THEN \E health \in HealthKinds, probe \in ProbeKinds :
              /\ last_status' = [last_status EXCEPT !.server = check_server(health, probe)]
              /\ pollChecks' = IF t = "poll" THEN pollChecks \o ServerRequests(health, probe)
                                             ELSE pollChecks
       ELSE /\ last_status' = [last_status EXCEPT !.server = FALSE]
            /\ UNCHANGED pollChecks
  /\ upPc' = [upPc EXCEPT ![t] = "lookup"]
  /\ UNCHANGED <<config, disk, running, reg_running, hb_running,
                 consecutive_failures, last_error, command_handler, webUp,
                 ctlVars, regPc, upResult, hbVars, ctlHist, polls, webCount, pollRegSeen, callbacks, cbStatus,
                 cbConfig, cbDisk, pollStores, saveFailed, callHist, beats, calls,
                 hbStartedBy, hbLive, cmdsSent, lastSleep, hbPlayer, executing>>

UpdLookup(t) ==
  /\ Alive
  /\ upPc[t] = "lookup"
  /\ pollChecks' = IF t = "poll" THEN <<>> ELSE pollChecks
  /\ IF last_status.server
       THEN \E a \in LookupAnswers :
              LET result == check_registration(a) IN
                IF HasGet(a)
                  THEN /\ upResult' = [upResult EXCEPT ![t] = result]
                       /\ last_status' = [last_status EXCEPT !.registered = result.registered,
                                                             !.error = result.error]
                       /\ upPc' = [upPc EXCEPT ![t] = "store"]
                       /\ pollRegSeen' = IF t = "poll" /\ result.registered
                                           THEN Append(pollRegSeen, result.player_id)
                                           ELSE pollRegSeen
                  ELSE \* AttributeError at result.get: update_status() is left
                       /\ upPc' = [upPc EXCEPT ![t] = "raised"]
                       /\ UNCHANGED <<last_status, upResult, pollRegSeen>>
       ELSE /\ last_status' = [last_status EXCEPT !.registered = FALSE]
            /\ upPc' = [upPc EXCEPT ![t] = "ret"]
            /\ UNCHANGED <<upResult, pollRegSeen>>
  /\ UNCHANGED <<config, disk, running, reg_running, hb_running,
                 consecutive_failures, last_error, command_handler, webUp,
                 ctlVars, regPc, hbVars,
                 stopRequested, sigCount, initPlayer, devVars, polls, webCount, beats, calls,
                 callbacks, cbStatus, cbConfig, cbDisk, pollStores, saveFailed,
                 hbStartedBy, hbLive, executing, callHist, cmdsSent, lastSleep, hbPlayer>>

\* Deviation: a looked-up player_id is never written.
DiscardsPlayerId(t) == FALSE

\* Lines 116-121: the looked-up player_id is written when it is set and differs.
StoresPlayerId(t) ==
  /\ last_status.registered
  /\ Truthy(upResult[t].player_id)
  /\ upResult[t].player_id # config.player_id

UpdStore(t) ==
  /\ Alive
  /\ upPc[t] = "store"
  /\ IF StoresPlayerId(t)
       THEN /\ config' = [config EXCEPT !.player_id = upResult[t].player_id]
            /\ upPc' = [upPc EXCEPT ![t] = "save"]
            /\ pollStores' = IF t = "poll"
                               THEN Append(pollStores, upResult[t].player_id)
                               ELSE pollStores
       ELSE /\ upPc' = [upPc EXCEPT ![t] = "ret"]
            /\ UNCHANGED <<config, pollStores>>
  /\ UNCHANGED <<disk, last_status, running, reg_running, hb_running,
                 consecutive_failures, last_error, command_handler, webUp,
                 ctlVars, regPc, upResult, hbVars,
                 stopRequested, sigCount, initPlayer, devVars, polls, pollChecks, webCount, beats, calls,
                 pollRegSeen, callbacks, cbStatus, cbConfig, cbDisk, saveFailed,
                 hbStartedBy, hbLive, executing, callHist, cmdsSent, lastSleep, hbPlayer>>

\* Deviation: save_config() reports success but leaves the file as it was.
SavesNothing(ok) == disk

\* save_config(): the file takes the config as it is now; a failed write is
\* logged and swallowed.  The directory exists: load_config() created it.
save_config(ok) == IF ok THEN config.player_id ELSE disk

UpdSave(t) ==
  /\ Alive
  /\ upPc[t] = "save"
  /\ \E ok \in BOOLEAN :
       /\ disk' = save_config(ok)
       /\ saveFailed' = IF t = "poll" /\ ~ok THEN TRUE ELSE saveFailed
  /\ upPc' = [upPc EXCEPT ![t] = "meta"]
  /\ UNCHANGED <<config, last_status, running, reg_running, hb_running,
                 consecutive_failures, last_error, command_handler, webUp,
                 ctlVars, regPc, upResult, hbVars,
                 stopRequested, sigCount, initPlayer, devVars, polls, pollChecks, webCount, beats, calls,
                 pollRegSeen, callbacks, cbStatus, cbConfig, cbDisk, pollStores,
                 hbStartedBy, hbLive, executing, callHist, cmdsSent, lastSleep, hbPlayer>>

UpdMeta(t) ==
  /\ Alive
  /\ upPc[t] = "meta"
  /\ last_status' = [last_status EXCEPT !.player_id = upResult[t].player_id]
  /\ upPc' = [upPc EXCEPT ![t] = "ret"]
  /\ UNCHANGED <<config, disk, running, reg_running, hb_running,
                 consecutive_failures, last_error, command_handler, webUp,
                 ctlVars, regPc, upResult, hbVars, histVars>>

update_status(t) ==
  \/ UpdInternet(t)
  \/ UpdServer(t)
  \/ UpdLookup(t)
  \/ UpdStore(t)
  \/ UpdSave(t)
  \/ UpdMeta(t)

\* poll(), line 136.
PollEntry ==
  /\ Alive
  /\ regPc = "entry"
  /\ reg_running' = TRUE
  /\ regPc' = "loop"
  /\ UNCHANGED <<config, disk, last_status, running, hb_running,
                 consecutive_failures, last_error, command_handler, webUp,
                 ctlVars, upPc, upResult, hbVars, histVars>>

\* while self.running: status = self.update_status()
PollLoop ==
  /\ Alive
  /\ regPc = "loop"
  /\ IF reg_running
       THEN /\ polls + webCount < MaxUpdates
            /\ polls' = polls + 1
            /\ regPc' = "update"
            /\ upPc' = [upPc EXCEPT !["poll"] = "internet"]
       ELSE /\ regPc' = "done"
            /\ UNCHANGED <<polls, upPc>>
  /\ UNCHANGED <<progVars, ctlVars, upResult, hbVars,
                 stopRequested, sigCount, initPlayer, devVars, pollChecks, webCount, beats, calls,
                 pollRegSeen, callbacks, cbStatus, cbConfig, cbDisk, pollStores, saveFailed,
                 hbStartedBy, hbLive, executing, callHist, cmdsSent, lastSleep, hbPlayer>>

\* Line 142, no try around it: an exception of update_status() leaves poll()
\* and ends the polling thread.
PollRaise ==
  /\ Alive
  /\ regPc = "update"
  /\ upPc["poll"] = "raised"
  /\ upPc' = [upPc EXCEPT !["poll"] = "idle"]
  /\ regPc' = "crashed"
  /\ UNCHANGED <<progVars, ctlVars, upResult, hbVars, histVars>>

\* Lines 144-156: status is last_status itself; registered ends the loop after
\* the callback (DigiPlayer._on_registered, which calls start_heartbeat()).
PollConclude ==
  /\ Alive
  /\ regPc = "update"
  /\ upPc["poll"] = "ret"
  /\ upPc' = [upPc EXCEPT !["poll"] = "idle"]
  /\ upResult' = [upResult EXCEPT !["poll"] = NoResult]
  /\ IF last_status.registered
       THEN /\ callbacks' = callbacks + 1
            /\ cbStatus' = last_status.player_id
            /\ cbConfig' = config.player_id
            /\ cbDisk' = disk
            /\ start_heartbeat("callback")
            /\ regPc' = "done"
       ELSE /\ regPc' = "sleep"
            /\ UNCHANGED <<callbacks, cbStatus, cbConfig, cbDisk, hbThread, hbPc, hbStartedBy, hbLive>>
  /\ UNCHANGED <<progVars, ctlVars, hbCaller, hbResp, cmdIdx, exCmd, exCaller,
                 exSuccess, exError, utilRuns, exRet, hbRet, executing,
                 stopRequested, sigCount, initPlayer, devVars, polls, pollChecks, webCount, beats, calls,
                 pollRegSeen, pollStores, saveFailed, callHist, cmdsSent, lastSleep, hbPlayer>>

PollSleep ==
  /\ Alive
  /\ regPc = "sleep"
  /\ regPc' = "loop"
  /\ UNCHANGED <<progVars, ctlVars, upPc, upResult, hbVars, histVars>>

poll ==
  \/ PollEntry
  \/ PollLoop
  \/ update_status("poll")
  \/ PollRaise
  \/ PollConclude
  \/ PollSleep

\* ------------------------------------------------------------- status surface
\* GET /api/status: registration_service.update_status(), then the snapshot.
api_status ==
  /\ Alive
  /\ webUp
  /\ upPc["web"] = "idle"
  /\ polls + webCount < MaxUpdates
  /\ webCount' = webCount + 1
  /\ upPc' = [upPc EXCEPT !["web"] = "internet"]
  /\ UNCHANGED <<progVars, ctlVars, regPc, upResult, hbVars,
                 stopRequested, sigCount, initPlayer, devVars, polls, pollChecks, beats, calls,
                 pollRegSeen, callbacks, cbStatus, cbConfig, cbDisk, pollStores, saveFailed,
                 hbStartedBy, hbLive, executing, callHist, cmdsSent, lastSleep, hbPlayer>>

\* api_status returns the status; an exception of update_status() ends the
\* request as well (the framework answers 500).
ApiStatusReturn ==
  /\ Alive
  /\ upPc["web"] \in {"ret", "raised"}
  /\ upPc' = [upPc EXCEPT !["web"] = "idle"]
  /\ upResult' = [upResult EXCEPT !["web"] = NoResult]
  /\ UNCHANGED <<progVars, ctlVars, regPc, hbVars, histVars>>

StatusSurface ==
  \/ api_status
  \/ update_status("web")
  \/ ApiStatusReturn

\* ------------------------------------------------------------- command executor
NoMsg == [kind |-> "none", arg |-> "none"]
UnknownTypeMsg(type) == [kind |-> "Unknown command type", arg |-> type]
ExceptionMsg(u) == [kind |-> "exception", arg |-> u]

Done(ok) == [success |-> ok, error |-> NoMsg]
\* Deviation: the except clause of execute() keeps no message of the exception.
Swallowed(u) == [success |-> FALSE, error |-> NoMsg]

\* Lines 49-51: an exception that left the handler; u is what the utility did.
Raised(u) == [success |-> FALSE, error |-> ExceptionMsg(u)]

\* _reboot(): only CalledProcessError is caught in the handler.
Reboot(u1) ==
  CASE u1 = "ok" -> Done(TRUE)
    [] u1 = "nonzero" -> Done(FALSE)
    [] OTHER -> Raised(u1)

\* _screen_on() / _screen_off(): the alternate is tried after CalledProcessError
\* or FileNotFoundError of the primary; any failure of the alternate is False.
Screen(u1, u2) ==
  CASE u1 = "ok" -> Done(TRUE)
    [] u1 \in {"nonzero", "missing"} -> Done(u2 = "ok")
    [] OTHER -> Raised(u1)

\* _screenshot(): the alternate is tried after FileNotFoundError of the primary
\* only; everything else is caught by the outer handler and is False.
Screenshot(u1, u2) ==
  CASE u1 = "ok" -> Done(TRUE)
    [] u1 = "missing" -> Done(u2 = "ok")
    [] OTHER -> Done(FALSE)

\* execute(), lines 29-51: dispatch on command_type; u1 and u2 are what the
\* primary and the alternate OS utility do when run.
Handler(type, u1, u2) ==
  CASE type = "reboot" -> Reboot(u1)
    [] type = "refresh" -> Done(TRUE)
    [] type = "screen_on" -> Screen(u1, u2)
    [] type = "screen_off" -> Screen(u1, u2)
    [] type = "screenshot" -> Screenshot(u1, u2)
    [] type = "update_playlist" -> Done(TRUE)
    [] OTHER -> [success |-> FALSE, error |-> UnknownTypeMsg(type)]

\* The OS utilities a handler runs, in order, each with what it did: _reboot()
\* runs one; _screen_on() / _screen_off() run the alternate after
\* CalledProcessError or FileNotFoundError of the primary; _screenshot() runs
\* the alternate after FileNotFoundError of the primary only.
RebootRuns(u1) == <<u1>>
ScreenRuns(u1, u2) == IF u1 \in {"nonzero", "missing"} THEN <<u1, u2>> ELSE <<u1>>
ScreenshotRuns(u1, u2) == IF u1 = "missing" THEN <<u1, u2>> ELSE <<u1>>

HandlerRuns(type, u1, u2) ==
  CASE type = "reboot" -> RebootRuns(u1)
    [] type \in {"screen_on", "screen_off"} -> ScreenRuns(u1, u2)
    [] type = "screenshot" -> ScreenshotRuns(u1, u2)
    [] OTHER -> <<>>

\* Lines 54 and 61: an acknowledgement is posted when cmd_id and player_id are true.
Acknowledges(cmd) == CmdIdTruthy(cmd.id) /\ Truthy(config.player_id)

\* Deviation: the returned value also depends on the acknowledgement's answer.
ExecuteResultAcked(success, answer) ==
  IF success /\ answer \in {"200", "none"} THEN "True" ELSE "False"

\* Line 57: what execute() returns, given the acknowledgement's answer ("none": not posted).
ExecuteResult(success, answer) == IF success THEN "True" ELSE "False"

\* Deviation: the loop skips every other command.
SkipIndex(i) == i + 2

\* for cmd in commands: the first position, and the position after i.
FirstIndex == 1
NextIndex(i) == i + 1

\* Line 61: self.command_handler(cmd) is a plain call: execute() has begun.
Entered(n) == n + 1

\* Deviation: the command is handed to a thread of its own, the caller goes on
\* without waiting for execute() to return.
StillRunning(n) == n

\* Line 57: execute() returns to its caller.
Returned(n) == n - 1

exLocals == <<exCmd, exCaller, exSuccess, exError, utilRuns>>

\* What is left of a call of execute() after its return: send_heartbeat()
\* drops the returned value, a direct caller holds it.
KeptRet(v) == IF exCaller = "heartbeat" THEN "none" ELSE v
KeptLog(log) == IF exCaller = "heartbeat" THEN <<>> ELSE log

ExDispatch ==
  /\ Alive
  /\ hbPc = "ex_dispatch"
  /\ \E u1 \in UtilOutcomes, u2 \in UtilOutcomes :
       LET h == Handler(exCmd.type, u1, u2) IN
         /\ exSuccess' = h.success
         /\ exError' = h.error
         /\ utilRuns' = IF exCaller = "caller" THEN HandlerRuns(exCmd.type, u1, u2) ELSE <<>>
  /\ execLog' = Append(execLog, cmdIdx)
  /\ ackLog' = <<>>
  /\ hbPc' = "ex_ack"
  /\ UNCHANGED <<progVars, ctlVars, regVars, hbThread, hbCaller, hbResp, cmdIdx, exCmd,
                 exCaller, exRet, hbRet, ctlHist, regHist, exDone, httpPosts,
                 beats, calls, hbStartedBy, hbLive, executing, cmdsSent, lastSleep, hbPlayer>>

\* Lines 53-57 with _acknowledge(): one POST, its answer only logged; then
\* execute() returns and its locals are gone.  send_heartbeat() drops the
\* returned value; a direct caller keeps it (exRet, with the call's ackLog).
ExAck ==
  /\ Alive
  /\ hbPc = "ex_ack"
  /\ IF Acknowledges(exCmd)
       THEN \E answer \in AckKinds :
              /\ ackLog' = KeptLog(Append(ackLog, [player |-> config.player_id,
                                                id |-> exCmd.id, success |-> exSuccess,
                                                error |-> exError, answer |-> answer]))
              /\ exRet' = KeptRet(ExecuteResult(exSuccess, answer))
       ELSE /\ exRet' = KeptRet(ExecuteResult(exSuccess, "none"))
            /\ ackLog' = KeptLog(ackLog)
  /\ exDone' = exDone + 1
  /\ executing' = Returned(executing)
  /\ IF exCaller = "heartbeat"
       THEN /\ cmdIdx' = NextIndex(cmdIdx)
            /\ hbPc' = "sh_cmd"
       ELSE /\ hbPc' = "idle"
            /\ UNCHANGED cmdIdx
  /\ exCmd' = NoCmd /\ exCaller' = "none" /\ exSuccess' = FALSE /\ exError' = NoMsg
  /\ utilRuns' = <<>>
  /\ UNCHANGED <<progVars, ctlVars, regVars, hbThread, hbCaller, hbResp, hbRet,
                 ctlHist, regHist, execLog, httpPosts, beats, calls, hbStartedBy, hbLive,
                 cmdsSent, lastSleep, hbPlayer>>

execute ==
  \/ ExDispatch
  \/ ExAck

\* ------------------------------------------------------------- heartbeat service
\* A heartbeat answer: its status; for 200 the body's "commands" field (absent,
\* null or a list) and the length of the list.  The code reads the command at a
\* position only when the loop reaches it, so its id and command_type are drawn
\* there (SendNextCmd).
HbResponses ==
  {[kind |-> "200", field |-> "list", count |-> n] : n \in 0..MaxCmds}
    \cup {[kind |-> "200", field |-> f, count |-> 0] : f \in {"absent", "null"}}
    \cup {[kind |-> k, field |-> "absent", count |-> 0] : k \in HttpKinds \ {"200"}}

Ok == [status |-> "ok", message |-> "none"]
Error(m) == [status |-> "error", message |-> m]

\* Lines 66-86: failures added and last_error for an answer other than 200.
Failure(kind) ==
  CASE kind = "404" -> [add |-> 0, error |-> "Player not found"]
    [] kind = "other" -> [add |-> 0, error |-> "HTTP 500"]
    [] kind = "timeout" -> [add |-> 1, error |-> "Timeout"]
    [] OTHER -> [add |-> 1, error |-> "Connection error"]

\* Line 59: commands and self.command_handler
DeliversCommands(resp) == resp.count > 0 /\ command_handler

\* Entering send_heartbeat(): the call's history starts empty.
BeginSend(who) ==
  /\ hbPc' = "sh_check"
  /\ hbCaller' = who
  /\ hbRet' = NoRet
  /\ hbResp' = NoResp
  /\ cmdIdx' = 0
  /\ execLog' = <<>> /\ exDone' = 0 /\ ackLog' = <<>> /\ httpPosts' = 0

\* run(), lines 119-130.
HBEntry ==
  /\ Alive
  /\ hbPc = "entry"
  /\ hb_running' = TRUE
  /\ hbPc' = "loop"
  /\ UNCHANGED <<config, disk, last_status, running, reg_running,
                 consecutive_failures, last_error, command_handler, webUp,
                 ctlVars, regVars, hbThread, hbCaller, hbResp, cmdIdx, exLocals,
                 exRet, hbRet, histVars>>

\* Deviation: no heartbeat is sent any more once the server answered 404.
SendsUntilNotFound == Truthy(config.player_id) /\ last_error # "Player not found"

\* Line 133: a heartbeat is sent in this iteration.
SendsHeartbeat == Truthy(config.player_id)

\* while self.running: if self.config.player_id: self.send_heartbeat()
HBLoop ==
  /\ Alive
  /\ hbPc = "loop"
  /\ IF ~hb_running
       THEN /\ hbPc' = "done"
            /\ hbThread' = "dead"
            /\ hbLive' = hbLive - 1
            /\ UNCHANGED <<hbCaller, hbRet, hbResp, cmdIdx, callHist, beats>>
       ELSE IF SendsHeartbeat
         THEN /\ beats < MaxBeats
              /\ beats' = beats + 1
              /\ BeginSend("run")
              /\ UNCHANGED <<hbThread, hbLive>>
         ELSE /\ hbPc' = "sleep"
              /\ UNCHANGED <<hbThread, hbLive, hbCaller, hbRet, hbResp, cmdIdx, callHist, beats>>
  /\ UNCHANGED <<progVars, ctlVars, regVars, exLocals, exRet,
                 ctlHist, regHist, calls, hbStartedBy, executing, cmdsSent, lastSleep, hbPlayer>>

\* Deviation: the wait grows with the number of consecutive failures.
Backoff(failures) == HeartbeatInterval * (failures + 1)

\* Line 136: time.sleep(interval), interval read from the config when run() began.
SleepTime(failures) == HeartbeatInterval

HBSleep ==
  /\ Alive
  /\ hbPc = "sleep"
  /\ lastSleep' = SleepTime(consecutive_failures)
  /\ UNCHANGED hbPlayer
  /\ hbPc' = "loop"
  /\ UNCHANGED <<progVars, ctlVars, regVars, hbThread, hbCaller, hbResp, cmdIdx,
                 exLocals, exRet, hbRet, ctlHist, regHist, callHist, beats, calls,
                 hbStartedBy, hbLive, cmdsSent, executing>>

\* Deviation: send_heartbeat() does not look at player_id before posting.
NeverNotRegistered == FALSE

\* Line 28: if not self.config.player_id
NotRegistered == ~Truthy(config.player_id)

\* send_heartbeat(), lines 28-30.
SendCheck ==
  /\ Alive
  /\ hbPc = "sh_check"
  /\ IF NotRegistered
       THEN /\ hbPc' = "sh_ret"
            /\ hbRet' = Error("Not registered")
       ELSE /\ hbPc' = "sh_post"
            /\ UNCHANGED hbRet
  /\ UNCHANGED <<progVars, ctlVars, regVars, hbThread, hbCaller, hbResp, cmdIdx,
                 exLocals, exRet, histVars>>

\* Lines 32-59 and 66-86: the POST and the branch on its answer.
\* Deviation: a 404 answer makes the heartbeat forget the player_id.
ForgetsPlayer(kind) ==
  IF kind = "404" THEN [config EXCEPT !.player_id = NoPlayer] ELSE config

\* send_heartbeat() reads the config and assigns to none of its fields,
\* whatever the answer.
ConfigAfterBeat(kind) == config

SendPost ==
  /\ Alive
  /\ hbPc = "sh_post"
  /\ httpPosts' = httpPosts + 1
  /\ \E resp \in HbResponses :
       /\ resp.count + cmdsSent <= MaxCmds
       /\ cmdsSent' = cmdsSent + resp.count
       /\ hbResp' = resp
       /\ config' = ConfigAfterBeat(resp.kind)
       /\ hbPlayer' = config.player_id
       /\ IF resp.kind = "200"
            THEN /\ consecutive_failures' = 0
                 /\ last_error' = "none"
                 /\ UNCHANGED hbRet
                 /\ IF DeliversCommands(resp)
                      THEN /\ cmdIdx' = FirstIndex
                           /\ hbPc' = "sh_cmd"
                      ELSE /\ hbPc' = "sh_log"
                           /\ UNCHANGED cmdIdx
            ELSE /\ consecutive_failures' = consecutive_failures + Failure(resp.kind).add
                 /\ last_error' = Failure(resp.kind).error
                 /\ hbRet' = Error(Failure(resp.kind).error)
                 /\ hbPc' = "sh_ret"
                 /\ UNCHANGED cmdIdx
  /\ UNCHANGED <<disk, last_status, running, reg_running, hb_running,
                 command_handler, webUp, ctlVars, regVars, hbThread, hbCaller,
                 exLocals, exRet, ctlHist, regHist, execLog, exDone, ackLog,
                 beats, calls, hbStartedBy, hbLive, executing, lastSleep>>

\* Lines 60-61: the next command of the list goes to the command handler.
SendNextCmd ==
  /\ Alive
  /\ hbPc = "sh_cmd"
  /\ IF cmdIdx <= hbResp.count
       THEN /\ \E cmd \in Commands : exCmd' = cmd
            /\ exCaller' = "heartbeat"
            /\ executing' = Entered(executing)
            /\ hbPc' = "ex_dispatch"
       ELSE /\ hbPc' = "sh_log"
            /\ UNCHANGED <<exCmd, exCaller, executing>>
  /\ UNCHANGED <<progVars, ctlVars, regVars, hbThread, hbCaller, hbResp, cmdIdx,
                 exSuccess, exError, utilRuns, exRet, hbRet, ctlHist, regHist,
                 callHist, beats, calls, hbStartedBy, hbLive, cmdsSent, lastSleep, hbPlayer>>

\* Lines 63-64, and 88-92 when len(commands) raises for a null commands field.
SendLog ==
  /\ Alive
  /\ hbPc = "sh_log"
  /\ IF hbResp.field = "null"
       THEN /\ consecutive_failures' = consecutive_failures + 1
            /\ last_error' = "exception"
            /\ hbRet' = Error("exception")
       ELSE /\ hbRet' = Ok
            /\ UNCHANGED <<consecutive_failures, last_error>>
  /\ hbPc' = "sh_ret"
  /\ UNCHANGED <<config, disk, last_status, running, reg_running, hb_running,
                 command_handler, webUp, ctlVars, regVars, hbThread, hbCaller, hbResp,
                 cmdIdx, exLocals, exRet, histVars>>

\* send_heartbeat() returns: to run(), which drops the value and sleeps, or to
\* the direct caller.
SendReturn ==
  /\ Alive
  /\ hbPc = "sh_ret"
  /\ hbPc' = IF hbCaller = "run" THEN "sleep" ELSE "idle"
  /\ hbRet' = IF hbCaller = "run" THEN NoRet ELSE hbRet
  /\ hbCaller' = "none"
  /\ hbResp' = NoResp
  /\ cmdIdx' = 0
  /\ execLog' = <<>> /\ exDone' = 0 /\ ackLog' = <<>> /\ httpPosts' = 0
  /\ hbPlayer' = NoPlayer
  /\ UNCHANGED <<progVars, ctlVars, regVars, hbThread, exLocals, exRet,
                 ctlHist, regHist, beats, calls, hbStartedBy, hbLive, executing, cmdsSent, lastSleep>>

send_heartbeat ==
  \/ SendCheck
  \/ SendPost
  \/ SendNextCmd
  \/ SendLog
  \/ SendReturn

run ==
  \/ HBEntry
  \/ HBLoop
  \/ HBSleep

\* ------------------------------------------------------------- the agent
NextCore ==
  \/ Controller
  \/ poll
  \/ run
  \/ send_heartbeat
  \/ execute

Next ==
  \/ NextCore
  \/ StatusSurface

\* The running agent: controller, polling thread, heartbeat thread, status surface.
Spec == Init /\ [][Next]_vars

\* The running agent while nobody requests /api/status.
CoreSpec == Init /\ [][NextCore]_vars

\* start_heartbeat() called on the running agent, at any moment, besides the
\* calls made by run() and by the registration callback.
CallStartHeartbeat ==
  /\ Alive
  /\ calls < MaxCalls
  /\ calls' = calls + 1
  /\ start_heartbeat("caller")
  /\ UNCHANGED <<progVars, ctlVars, regVars, hbCaller, hbResp, cmdIdx, exLocals,
                 exRet, hbRet, ctlHist, regHist, callHist, beats, cmdsSent,
                 lastSleep, hbPlayer, executing>>

StartNext ==
  \/ NextCore
  \/ CallStartHeartbeat

\* The running agent with further start_heartbeat() calls.
StartSpec == Init /\ [][StartNext]_vars

\* ------------------------------------------------------------- the services called directly
\* HeartbeatService and CommandExecutor as objects: any config, any counters,
\* send_heartbeat() and execute() called one after the other by a single caller.
ServiceStates ==
  {[consecutive_failures |-> 0, last_error |-> "none"],
   [consecutive_failures |-> 0, last_error |-> "Player not found"]}
    \cup {[consecutive_failures |-> n, last_error |-> "Timeout"] : n \in 1..MaxFail}

UnitInit ==
  /\ InitCommon
  /\ \E p \in {NoPlayer} \cup PlayerIds :
       /\ config = Config(p)
       /\ disk = p
       /\ initPlayer = p
  /\ DevIdle
  /\ \E st \in ServiceStates :
       /\ consecutive_failures = st.consecutive_failures
       /\ last_error = st.last_error
  /\ command_handler \in BOOLEAN
  /\ ctlPc = "unit"
  /\ hbPc = "idle"

CallSendHeartbeat ==
  /\ ctlPc = "unit"
  /\ hbPc = "idle"
  /\ calls < MaxCalls
  /\ calls' = calls + 1
  /\ BeginSend("caller")
  /\ UNCHANGED <<progVars, ctlVars, regVars, hbThread, exLocals, exRet,
                 ctlHist, regHist, beats, hbStartedBy, hbLive, executing, cmdsSent, lastSleep, hbPlayer>>

CallExecute ==
  /\ ctlPc = "unit"
  /\ hbPc = "idle"
  /\ calls < MaxCalls
  /\ calls' = calls + 1
  /\ \E cmd \in Commands : exCmd' = cmd
  /\ exCaller' = "caller"
  /\ executing' = Entered(executing)
  /\ hbPc' = "ex_dispatch"
  /\ cmdIdx' = 0
  /\ execLog' = <<>> /\ exDone' = 0 /\ ackLog' = <<>> /\ httpPosts' = 0
  /\ UNCHANGED <<progVars, ctlVars, regVars, hbThread, hbCaller, hbResp,
                 exSuccess, exError, utilRuns, exRet, hbRet,
                 ctlHist, regHist, beats, hbStartedBy, hbLive, cmdsSent, lastSleep, hbPlayer>>

UnitNext ==
  \/ CallSendHeartbeat
  \/ CallExecute
  \/ send_heartbeat
  \/ execute

UnitSpec == UnitInit /\ [][UnitNext]_vars

\* ------------------------------------------------------------- generate_device_id() called directly
agentVars == <<progVars, ctlVars, regVars, hbVars, stopRequested, sigCount, initPlayer,
               regHist, callHist, beats, calls, hbStartedBy, hbLive, cmdsSent, lastSleep, hbPlayer, executing>>

\* A machine, and a process on it that has not asked for a device id yet.
DeviceInit ==
  /\ InitCommon
  /\ config = Config(NoPlayer) /\ disk = NoPlayer /\ initPlayer = NoPlayer
  /\ consecutive_failures = 0 /\ last_error = "none"
  /\ command_handler = FALSE
  /\ ctlPc = "device"
  /\ hbPc = "off"
  /\ cpuinfo \in CpuInfos
  /\ ifaces \in IfaceSets
  /\ hwNode \in {NoNode} \cup HwNodes
  /\ nodeCache = NoNode
  /\ devProc = 1
  /\ devIds = <<>>

\* One call of generate_device_id(): get_cpu_serial(), get_mac_address(), the
\* digest.  An exception of get_cpu_serial() leaves generate_device_id().
GenerateDeviceId ==
  /\ ctlPc = "device"
  /\ Len(devIds) < MaxIds
  /\ LET serial == get_cpu_serial(cpuinfo) IN
       IF serial.raised
         THEN /\ devIds' = Append(devIds, Fails)
              /\ UNCHANGED nodeCache
         ELSE IF FirstReadable(ifaces, 1) # 0
           THEN /\ devIds' = Append(devIds,
                       Gives(generate_device_id(serial.value, get_mac_address(ifaces, NoNode))))
                /\ UNCHANGED nodeCache
           ELSE \E node \in getnode :
                  /\ nodeCache' = node
                  /\ devIds' = Append(devIds,
                       Gives(generate_device_id(serial.value, get_mac_address(ifaces, node))))
  /\ UNCHANGED <<agentVars, cpuinfo, ifaces, hwNode, devProc>>

\* The process ends and the agent is started again on the same machine.
Restart ==
  /\ ctlPc = "device"
  /\ devProc < MaxProcs
  /\ devProc' = devProc + 1
  /\ nodeCache' = NoNode
  /\ UNCHANGED <<agentVars, cpuinfo, ifaces, hwNode, devIds>>

DeviceNext ==
  \/ GenerateDeviceId
  \/ Restart

DeviceSpec == DeviceInit /\ [][DeviceNext]_vars

\* ------------------------------------------------------------- properties
\* The agent is Registered: it started with a persisted player_id, or the
\* Registration Service has reported registered and fired its callback.
Registered == Truthy(initPlayer) \/ callbacks > 0

\* No status update is in flight.
Quiescent == \A t \in Threads : upPc[t] = "idle"

BoolStr(b) == IF b THEN "True" ELSE "False"
Positions(n) == [i \in 1..n |-> i]

\* C1, as stated: once stop() has been requested, no heartbeat thread is
\* started afterwards, whatever the in-flight poll iteration concludes.
C1_ShutdownWins ==
  [][stopRequested => ~(hbThread # "alive" /\ hbThread' = "alive")]_vars

\* The polling loop has received registered(player_id = p), p a player id.
C2_GotRegistered == pollRegSeen # <<>> /\ Truthy(pollRegSeen[1])

C2_State(persisted) ==
  C2_GotRegistered =>
    LET p == pollRegSeen[1] IN
      /\ Len(pollRegSeen) = 1
      /\ callbacks <= 1
      /\ regPc = "done" =>
           /\ callbacks = 1
           /\ cbStatus = p
           /\ cbConfig = p /\ config.player_id = p
           /\ pollStores = <<p>>
           /\ persisted
           /\ upPc["poll"] = "idle"

C2_Step ==
  regPc = "done" => (regPc' = "done" /\ polls' = polls /\ callbacks' = callbacks
                       /\ pollRegSeen' = pollRegSeen)

C3_InOrder ==
  /\ (hbPc = "ex_dispatch" /\ exCaller = "heartbeat") =>
       (execLog = Positions(cmdIdx - 1) /\ exDone = cmdIdx - 1)
  /\ (hbPc = "ex_ack" /\ exCaller = "heartbeat") =>
       (execLog = Positions(cmdIdx) /\ exDone = cmdIdx - 1)
  /\ (hbPc \in {"sh_log", "sh_ret"} /\ hbResp.kind = "200" /\ hbResp.field = "list"
        /\ command_handler) =>
       (execLog = Positions(hbResp.count) /\ exDone = hbResp.count)

\* C3's case: a 200 answer with two commands, both executed, about to return.
C3_Witness ==
  /\ hbPc = "sh_ret" /\ hbResp.kind = "200" /\ hbResp.count = 2
  /\ execLog = <<1, 2>> /\ exDone = 2 /\ hbRet = Ok

\* C4: the step that receives 404 leaves config, the config file, the loop
\* flag and the thread alone and makes send_heartbeat() return the error
\* "Player not found"; the loop then sleeps, and its next iteration, unless
\* stopped, sends a heartbeat again.
C4_NotFound ==
  [][ /\ (hbPc = "sh_post" /\ hbResp'.kind = "404") =>
           /\ config' = config /\ disk' = disk
           /\ hb_running' = hb_running /\ hbThread' = hbThread
           /\ hbRet' = Error("Player not found")
           /\ hbPc' = "sh_ret"
      /\ (hbPc = "sh_ret" /\ hbResp.kind = "404" /\ hbCaller = "run" /\ hbPc' # hbPc) =>
           (hbPc' = "sleep" /\ hbThread' = "alive" /\ config' = config)
      /\ (hbPc = "loop" /\ last_error = "Player not found" /\ hb_running /\ hbPc' # hbPc) =>
           (hbPc' = "sh_check" /\ beats' = beats + 1 /\ Truthy(config.player_id))
    ]_vars

\* C4's case: the heartbeat after a 404 is being sent.
C4_Witness ==
  /\ hbPc = "sh_post" /\ beats = 2 /\ last_error = "Player not found"
  /\ Truthy(config.player_id)

\* C5: send_heartbeat() without a player_id posts nothing, executes nothing,
\* changes no state of the services or the config, and returns the error
\* "Not registered"; every such call does the same.
C5_NoOp ==
  [][ (hbPc = "sh_check" /\ ~Truthy(config.player_id)) =>
        /\ hbPc' = "sh_ret"
        /\ hbRet' = Error("Not registered")
        /\ UNCHANGED progVars
        /\ httpPosts' = 0 /\ execLog' = <<>> /\ ackLog' = <<>> /\ exDone' = 0
    ]_vars

\* C5's case: the second of two send_heartbeat() calls without a player_id
\* has returned.
C5_Witness ==
  /\ hbPc = "idle" /\ calls = 2 /\ exRet = "none"
  /\ ~Truthy(config.player_id) /\ hbRet = Error("Not registered")

\* C6, as stated: execute() of a command of unknown type returns False with
\* the message naming the type, and when a player_id is configured and the
\* command carries an id, the acknowledgement is posted with success = false
\* and that message.
C6_UnknownType ==
  [][ (hbPc = "ex_ack" /\ exCaller = "caller" /\ exCmd.type \notin KnownTypes
         /\ hbPc' # hbPc) =>
        /\ exRet' = "False"
        /\ exError = UnknownTypeMsg(exCmd.type)
        /\ (Truthy(config.player_id) /\ exCmd.id # NoCmdId) =>
             /\ Len(ackLog') = 1
             /\ ackLog'[1].id = exCmd.id
             /\ ackLog'[1].success = FALSE
             /\ ackLog'[1].error = UnknownTypeMsg(exCmd.type)
    ]_vars

\* C7: execute() returns the handler's outcome whatever the acknowledgement
\* does (not posted, 200, another status, an exception), and posts at most one
\* acknowledgement, which carries that outcome.
C7_AckIndependent ==
  [][ (hbPc = "ex_ack" /\ exCaller = "caller" /\ hbPc' # hbPc) =>
        /\ hbPc' = "idle"
        /\ exRet' = BoolStr(exSuccess)
        /\ Len(ackLog') <= 1
        /\ ackLog' # <<>> => ackLog'[1].success = exSuccess
    ]_vars

\* C7's case: the handler succeeded, the acknowledgement raised, execute()
\* returned True.
C7_Witness ==
  /\ hbPc = "idle" /\ exRet = "True"
  /\ ackLog # <<>> /\ ackLog[1].answer = "exc" /\ ackLog[1].success

\* C8, as stated, at the states where no status update is in flight:
\* config.player_id is set if and only if the agent is Registered; in
\* particular it is set when the polling loop has ended as registered.
C8_SetIffRegistered ==
  Quiescent => (Truthy(config.player_id) <=> Registered)

\* C9, as stated: once the registration callback has fired and no stop has
\* been requested, player_id is set and the heartbeat thread is running.
C9_CallbackStartsHeartbeat ==
  (callbacks > 0 /\ ~stopRequested) =>
    (Truthy(config.player_id) /\ hbThread = "alive")

C11_NoBeatAfterStop ==
  [][(stopRequested /\ hbPc = "loop") => hbPc' # "sh_check"]_vars

\* C12, as stated: a polling loop iteration that begins after stop() performs
\* no status update, also when stop() came before the first statement of poll().
C12_NoPollAfterStop ==
  [][(stopRequested /\ regPc = "loop") => regPc' # "update"]_vars

\* C13, as stated: a send_heartbeat() whose POST ends with an HTTP status other
\* than 200 and 404, a timeout or a connection failure adds exactly one to
\* consecutive_failures, records last_error and returns an error result.
C13_FailureCounted ==
  [][(hbPc = "sh_post" /\ hbPc' = "sh_ret"
        /\ hbResp'.kind \in {"other", "timeout", "connerr"})
       => /\ consecutive_failures' = consecutive_failures + 1
          /\ last_error' # "none"
          /\ hbRet'.status = "error"]_vars

\* C14, as stated: when send_heartbeat() returns after the server answered 200,
\* consecutive_failures is 0 and last_error is empty, whatever the commands
\* field held.
C14_ResetOnOk ==
  (hbPc = "sh_ret" /\ hbResp.kind = "200")
    => (consecutive_failures = 0 /\ last_error = "none")

\* C15: in every reachable state at most one call of the command handler has
\* begun and not returned, whatever the controller, the polling thread, the
\* heartbeat thread and the status surface do in between; the thread that
\* delivers the commands is started once, never a second time.
C15_OneHandler ==
  /\ [](executing <= 1 /\ (executing = 1 => hbThread = "alive"))
  /\ [][(hbThread' = "alive" /\ hbThread # "alive") => hbThread = "none"]_vars

\* A handler is executing while a status refresh of the status surface is in flight.
C15_Witness == executing = 1 /\ hbPc = "ex_ack" /\ upPc["web"] \notin {"idle", "ret"}

\* The handler of the current direct call let an exception out to execute():
\* _reboot() catches only CalledProcessError, _screen_on() / _screen_off()
\* catch only CalledProcessError and FileNotFoundError of the primary.
C16_Raised ==
  /\ utilRuns # <<>>
  /\ \/ exCmd.type = "reboot" /\ utilRuns[1] \in {"missing", "other"}
     \/ exCmd.type \in {"screen_on", "screen_off"} /\ utilRuns[1] = "other"

\* C16: for every command type and every outcome of the OS utilities,
\* execute() returns to its caller with a boolean; when the handler raised,
\* the value is False, the error message is the text of the exception, and an
\* acknowledgement posted by the call carries success=false and that message.
C16_NeverRaises ==
  /\ []((hbPc = "ex_ack" /\ exCaller = "caller" /\ C16_Raised)
          => (~exSuccess /\ exError = ExceptionMsg(utilRuns[1])))
  /\ [][ (hbPc = "ex_ack" /\ exCaller = "caller" /\ hbPc' # hbPc) =>
           /\ hbPc' = "idle"
           /\ exRet' \in {"True", "False"}
           /\ C16_Raised =>
                /\ exRet' = "False"
                /\ \A i \in 1..Len(ackLog') :
                     /\ ackLog'[i].success = FALSE
                     /\ ackLog'[i].error = ExceptionMsg(utilRuns[1])
       ]_vars

\* C16's case: the reboot utility was missing, execute() returned False and
\* acknowledged the exception's message.
C16_Witness ==
  /\ hbPc = "idle" /\ exRet = "False"
  /\ ackLog # <<>> /\ ackLog[1].error = ExceptionMsg("missing") /\ ~ackLog[1].success

\* C17, as stated: the polling loop ends only by registration (the callback
\* has run) or by stop(); no outcome of a check, of the lookup or of the config
\* write ends it otherwise.
C17_EndsOnlyByRegisteredOrStop ==
  regPc \in {"done", "crashed"} => (callbacks > 0 \/ stopRequested)

\* C19, as stated: execute() makes exactly one acknowledgement attempt when
\* the command carries an id (any integer) and a player_id is configured,
\* and none when the command has no id or no player_id is configured.
C19_OneAckPerId ==
  [][ (hbPc = "ex_ack" /\ exCaller = "caller" /\ hbPc' # hbPc) =>
        IF exCmd.id # NoCmdId /\ Truthy(config.player_id)
          THEN Len(ackLog') = 1 /\ ackLog'[1].id = exCmd.id
          ELSE ackLog' = <<>>
    ]_vars

\* C20, as stated: when the primary utility of screen_on, screen_off or
\* screenshot fails in any way, the alternate is run as well, and the handler
\* succeeds if the alternate succeeds.
C20_AlternateTried ==
  (/\ hbPc = "ex_ack" /\ exCaller = "caller"
   /\ exCmd.type \in {"screen_on", "screen_off", "screenshot"}
   /\ utilRuns # <<>> /\ utilRuns[1] # "ok")
    => (Len(utilRuns) = 2 /\ (utilRuns[2] = "ok" => exSuccess))

\* The fixed format of a device id: DIG and 12 uppercase alphanumeric characters.
C18_WellFormed(id) ==
  /\ Len(id) = 15
  /\ SubSeq(id, 1, 3) = <<"D", "I", "G">>
  /\ \A i \in 4..15 : id[i] \in UpperAlnum

\* C18, as stated: on one machine (the hardware facts do not change) every
\* call of generate_device_id() succeeds, gives an id of the fixed format, and
\* gives the same id as every other call, in this process or after a restart.
C18_DeviceId ==
  \A i \in 1..Len(devIds) :
    /\ ~devIds[i].raised
    /\ C18_WellFormed(devIds[i].value)
    /\ devIds[i] = devIds[1]

\* C21, as stated: when a poll iteration comes to its lookup step it has made
\* the internet check and then the server check (the health request),
\* whatever the internet check returned; and it performs the lookup exactly
\* when that server check found the server reachable.
C21_ChecksInOrder ==
  /\ [](upPc["poll"] = "lookup" =>
          /\ Len(pollChecks) >= 2
          /\ pollChecks[1].check = "internet"
          /\ pollChecks[2].check = "health")
  /\ [][(upPc["poll"] = "lookup" /\ upPc'["poll"] # "lookup") =>
          (upPc'["poll"] \in {"store", "raised"} <=> last_status.server)]_vars

\* C22, as stated: after a server check, either the health endpoint answered
\* 200 and the server is reported reachable without a probe, or the health
\* endpoint was unavailable (it raised, or answered another status), the
\* lookup probe was made, and the server is reported reachable exactly when
\* the probe answered 200 or 404.
C22_FallbackWhenUnavailable ==
  (upPc["poll"] = "lookup" /\ Len(pollChecks) >= 2) =>
    IF pollChecks[2].answer = "200"
      THEN Len(pollChecks) = 2 /\ last_status.server
      ELSE /\ Len(pollChecks) = 3
           /\ pollChecks[3].check = "probe"
           /\ last_status.server <=> pollChecks[3].answer \in {"200", "404"}

\* C23: no heartbeat outcome ends the heartbeat loop or changes its pace.
\* After every send_heartbeat() of the loop, whatever it returned and whatever
\* consecutive_failures holds, the loop sleeps; every sleep lasts the fixed
\* interval and leads back to the loop's test; there, while the service is
\* not stopped and a player_id is present, the next step is another
\* heartbeat; and the loop's thread ends only when the service is stopped.
C23_Step ==
  /\ (hbPc = "sh_ret" /\ hbCaller = "run" /\ hbPc' # hbPc) => hbPc' = "sleep"
  /\ (hbPc = "sleep" /\ hbPc' # hbPc) =>
       (hbPc' = "loop" /\ lastSleep' = HeartbeatInterval)
  /\ (hbPc = "loop" /\ hb_running /\ Truthy(config.player_id) /\ hbPc' # hbPc) =>
       (hbPc' = "sh_check" /\ hbThread' = "alive")
  /\ (hbThread = "alive" /\ hbThread' # "alive") => (hbPc = "loop" /\ ~hb_running)

C23_FixedPace ==
  /\ [](lastSleep \in {NoSleep, HeartbeatInterval})
  /\ [][C23_Step]_vars

\* C23's case: after a heartbeat that timed out (consecutive_failures = 1) the
\* loop slept the fixed interval and is sending the next heartbeat.
C23_Witness ==
  /\ hbCaller = "run" /\ hbPc = "sh_post" /\ beats = 2
  /\ consecutive_failures = 1 /\ last_error = "Timeout"
  /\ lastSleep = HeartbeatInterval

\* C24: a change of config.player_id by update_status() leaves the writing
\* thread at its save_config() call with the in-memory value set; the write
\* attempt either puts the in-memory player_id into the file or fails, is
\* swallowed and leaves file and memory as they are, and the update goes on;
\* the callback fires only when no write attempt of the polling loop is
\* pending, with the in-memory player_id still set.
C24_Step ==
  /\ config' # config =>
       \E t \in Threads :
         /\ upPc[t] = "store" /\ upPc'[t] = "save"
         /\ config'.player_id = upResult[t].player_id
  /\ \A t \in Threads :
       (upPc[t] = "save" /\ upPc'[t] # "save") =>
         /\ upPc'[t] = "meta"
         /\ config' = config
         /\ disk' = config.player_id \/ disk' = disk
  /\ callbacks' # callbacks =>
       /\ upPc["poll"] = "ret"
       /\ pollStores # <<>> => config.player_id = pollStores[Len(pollStores)]

C25_Step ==
  /\ hbVars' # hbVars => config' = config
  /\ config' # config =>
       /\ \E t \in Threads : upPc[t] = "store" /\ upPc'[t] = "save"
       /\ config' = [config EXCEPT !.player_id = config'.player_id]

C25_ConfigReadOnly ==
  /\ [](/\ config.device_id = DeviceId
        /\ config.server_url = ServerUrl
        /\ config.heartbeat_interval = HeartbeatInterval)
  /\ [][C25_Step]_vars

\* The heartbeat loop has sent two heartbeats, the second answered 404, commands
\* have been delivered and executed, and the player_id is the one it started with.
C25_Witness ==
  /\ hbCaller = "run" /\ hbPc = "sh_ret" /\ beats = 2 /\ cmdsSent > 0
  /\ executing = 0 /\ last_error = "Player not found"
  /\ Truthy(initPlayer) /\ config = Config(initPlayer)

\* C26: once update_status() has stored a player_id and the snapshot says
\* registered with that player_id, no step turns the snapshot's registered to
\* false while config.player_id stays set.
C26_StaysRegistered ==
  [][(/\ config.player_id # initPlayer
      /\ last_status.registered
      /\ last_status.player_id = config.player_id
      /\ Truthy(config'.player_id))
        => last_status'.registered]_vars

\* C27: never more than one heartbeat thread is alive; a heartbeat thread is
\* started only when none is running.
C27_OneHeartbeatThread ==
  /\ [](hbLive <= 1 /\ (hbThread = "alive" <=> hbLive = 1))
  /\ [][hbLive' > hbLive => (hbLive = 0 /\ hbThread # "alive")]_vars

\* The thread started at startup is running and has sent a heartbeat; two
\* further start_heartbeat() calls have been made and have started nothing.
C27_Witness ==
  /\ hbThread = "alive" /\ hbLive = 1 /\ hbStartedBy = "startup"
  /\ calls >= 2 /\ beats >= 1

\* C28: when a command delivered by a heartbeat is acknowledged, the player_id
\* in the acknowledgement URL (config.player_id at that moment) is the
\* player_id that was in the URL of the heartbeat POST that delivered it.
C28_AckSamePlayer ==
  [][(/\ hbPc = "ex_ack" /\ hbPc' # "ex_ack"
      /\ exCaller = "heartbeat"
      /\ Acknowledges(exCmd))
        => config.player_id = hbPlayer]_vars

=============================================================================
